---- MODULE Spec2Model ----
(***************************************************************************)
(* Model of assets/notifications.js: the four globals hwPermissionStatus,  *)
(* hwRequestPermission, hwNotify and hwIsInIframe, together with the        *)
(* platform they wrap (the Notification capability, its permission, the    *)
(* permission prompt, the notification constructor, window.top).           *)
(***************************************************************************)
EXTENDS Naturals, Sequences, FiniteSets

\* ------------------------------------------------------------------ bounds
\* Number of requestPermission invocations that may be started.
MaxReq == 1
\* Number of notifications that may be constructed.
MaxShown == 1

\* ------------------------------------------------------------ JS values
\* JavaScript values are tagged by type, so that undefined, the empty string
\* and a non-empty string are three different values.
Undefined == [type |-> "undefined"]
Str(s) == [type |-> "string", val |-> s]
Bool(b) == [type |-> "boolean", val |-> b]

\* How a call ends: with a returned value, or with a raised error (for the
\* async function: a resolved or a rejected promise).
Return(v) == [raised |-> FALSE, ret |-> v]
Throw == [raised |-> TRUE, ret |-> Undefined]

\* ToBoolean on the values that occur here: undefined and "" are falsy.
Falsy(v) == v = Undefined \/ v = Str("")
\* a || b
Or(a, b) == IF Falsy(a) THEN b ELSE a

\* The arguments the host page passes to notify: missing, empty, non-empty.
TitleArgs == {Undefined, Str(""), Str("T")}
BodyArgs == {Undefined, Str(""), Str("B")}

\* The values Notification.permission takes.
Permissions == {"granted", "denied", "default"}

VARIABLES
  hasNotification, \* 'Notification' in window
  getterFault,     \* which unguarded platform read throws: "none", "in", "permission"
  permission,      \* Notification.permission
  ctorMode,        \* new Notification(..): "ok", "ctorThrows", "onclickThrows"
  reqStyle,        \* Notification.requestPermission(): "promise", "callback", "throws"
  displayed,       \* the notifications constructed so far, in order
  last,            \* the most recent synchronous call or click handler run:
                   \* its arguments, what its access to window did (win), the
                   \* permission it read (perm), and how it ended (out)
  reqs             \* the requestPermission invocations: where each stands (pc),
                   \* the platform request it made (prompt), whether the
                   \* permission was "default" when it started (undecided),
                   \* and how it ended (out)

vars == <<hasNotification, getterFault, permission, ctorMode, reqStyle,
          displayed, last, reqs>>

platform == <<hasNotification, getterFault, ctorMode, reqStyle>>

Reqs == 1..MaxReq

\* ---------------------------------------------------------- the operations

\* The permission a call of permissionStatus or notify reads: none when the
\* capability test already returned.
PermissionRead == IF hasNotification THEN permission ELSE "n/a"

\* function permissionStatus()
permissionStatus ==
  IF getterFault = "in" THEN Throw
  ELSE IF ~hasNotification THEN Return(Str("unsupported"))
  ELSE IF getterFault = "permission" THEN Throw
  ELSE Return(Str(permission))

\* Variant: the title passed on without its default.
NotifyTitle_raw(title) == title
\* title || 'Health Whisperer'
NotifyTitle(title) == Or(title, Str("Health Whisperer"))

\* body || ''
NotifyBody(body) == Or(body, Str(""))

\* n.onclick = () => {...} inside its own try/catch: the handler is attached
\* unless the assignment throws.
AttachOnclick == ctorMode # "onclickThrows"

\* Variant: title and body passed to the constructor in each other's place.
NewNotification_swapped(title, body) ==
  [title |-> NotifyBody(body), body |-> NotifyTitle(title),
   tag |-> Str("health-whisperer"), onclick |-> AttachOnclick,
   perm |-> permission]
\* new Notification(title || 'Health Whisperer', {body: body || '', tag: 'health-whisperer'})
\* perm records the permission the constructing call read.
NewNotification(title, body) ==
  [title |-> NotifyTitle(title), body |-> NotifyBody(body),
   tag |-> Str("health-whisperer"), onclick |-> AttachOnclick,
   perm |-> permission]

\* Variant: only "denied" blocks.
NotGranted_inverted == permission = "denied"
\* The permission test of notify: Notification.permission !== 'granted'
NotGranted == permission # "granted"

\* Variant: the constructor's exception leaves notify.
NotifyCatch_rethrow == Throw
\* The catch around the constructor in notify: return 'blocked'
NotifyCatch == Return(Str("blocked"))

\* Variant: a call made while a notification is already displayed is blocked.
notify_dedup(title, body) ==
  IF getterFault = "in" THEN [out |-> Throw, created |-> <<>>]
  ELSE IF ~hasNotification
    THEN [out |-> Return(Str("unsupported")), created |-> <<>>]
  ELSE IF getterFault = "permission" THEN [out |-> Throw, created |-> <<>>]
  ELSE IF NotGranted \/ displayed # <<>>
    THEN [out |-> Return(Str("blocked")), created |-> <<>>]
  ELSE IF ctorMode = "ctorThrows" THEN [out |-> NotifyCatch, created |-> <<>>]
  ELSE [out |-> Return(Str("shown")), created |-> <<NewNotification(title, body)>>]
\* function notify(title, body): how the call ends and what it constructed.
notify(title, body) ==
  IF getterFault = "in" THEN [out |-> Throw, created |-> <<>>]
  ELSE IF ~hasNotification
    THEN [out |-> Return(Str("unsupported")), created |-> <<>>]
  ELSE IF getterFault = "permission" THEN [out |-> Throw, created |-> <<>>]
  ELSE IF NotGranted THEN [out |-> Return(Str("blocked")), created |-> <<>>]
  ELSE IF ctorMode = "ctorThrows" THEN [out |-> NotifyCatch, created |-> <<>>]
  ELSE [out |-> Return(Str("shown")), created |-> <<NewNotification(title, body)>>]

\* What reading and comparing window.top does: it is window.self, it is
\* another window, or the access throws (a cross-origin parent).
TopAccesses == {"self", "other", "throws"}

\* Variant: catch(e){ return false; }
isInIframe_false(topAccess) ==
  IF topAccess = "throws" THEN Return(Bool(FALSE)) ELSE Return(Bool(topAccess # "self"))
\* function isInIframe(): window.top !== window.self, true when it throws.
isInIframe(topAccess) ==
  IF topAccess = "throws" THEN Return(Bool(TRUE)) ELSE Return(Bool(topAccess # "self"))

\* What window.focus() does in the click handler.
FocusAccesses == {"focused", "throws"}

\* The click handler: () => { try{ window.focus(); }catch(e){} }
\* It returns undefined whether or not window.focus() throws.
ClickHandler(focusAccess) == Return(Undefined)

\* Variant: catch(e){ return 'default'; }
RequestCatch_fixed(c) == Return(Str("default"))
\* The catch block of requestPermission: return permissionStatus()
RequestCatch(c) == permissionStatus

\* const r = await Notification.requestPermission(); return r;
\* for a promise fulfilled with value v.
RequestReturn(c, v) == Return(v)

\* Variant: the capability test left out.
RequestUnsupported_prompt == FALSE
\* The capability test of requestPermission: !('Notification' in window)
RequestUnsupported == ~hasNotification

\* Invocations are numbered in the order they start.
InOrder(c) == IF c = 1 THEN TRUE ELSE reqs[c - 1].pc # "idle"

\* An invocation that has not started.
IdleReq ==
  [pc |-> "idle", prompt |-> "none", undecided |-> FALSE,
   out |-> Return(Undefined)]

\* ------------------------------------------------------------------- Init
\* The state when the script has been loaded and nothing has been called. The
\* platform is any browser: with or without the capability, and with it, any
\* permission, any behaviour of the constructor and any style of
\* Notification.requestPermission. Without the capability there is no
\* Notification object, so its settings take one fixed value.
InitCommon ==
  /\ hasNotification \in BOOLEAN
  /\ permission \in Permissions
  /\ ctorMode \in (IF hasNotification THEN {"ok", "ctorThrows", "onclickThrows"} ELSE {"ok"})
  /\ reqStyle \in (IF hasNotification THEN {"promise", "callback", "throws"} ELSE {"promise"})
  /\ hasNotification \/ permission = "default"
  /\ displayed = <<>>
  /\ last = [op |-> "none", title |-> Undefined, body |-> Undefined, win |-> "n/a",
             perm |-> "n/a", out |-> Return(Undefined)]
  /\ reqs = [c \in Reqs |-> IdleReq]

\* The platform as specified: the `in` test and the permission getter do not throw.
Init == InitCommon /\ getterFault = "none"

\* A platform on which an unguarded read may throw as well.
InitFault == InitCommon /\ getterFault \in {"none", "in", "permission"}

\* ---------------------------------------------------------------- actions

\* The host page calls hwPermissionStatus().
PermissionStatusCall ==
  /\ last' = [op |-> "permissionStatus", title |-> Undefined, body |-> Undefined,
              win |-> "n/a", perm |-> PermissionRead, out |-> permissionStatus]
  /\ UNCHANGED <<platform, permission, displayed, reqs>>

\* The host page calls hwNotify(title, body).
NotifyCall(title, body) ==
  /\ Len(displayed) + Len(notify(title, body).created) <= MaxShown
  /\ displayed' = displayed \o notify(title, body).created
  /\ last' = [op |-> "notify", title |-> title, body |-> body, win |-> "n/a",
              perm |-> PermissionRead, out |-> notify(title, body).out]
  /\ UNCHANGED <<platform, permission, reqs>>

\* The host page calls hwIsInIframe().
IsInIframeCall(topAccess) ==
  /\ last' = [op |-> "isInIframe", title |-> Undefined, body |-> Undefined,
              win |-> topAccess, perm |-> "n/a", out |-> isInIframe(topAccess)]
  /\ UNCHANGED <<platform, permission, displayed, reqs>>

\* The host page calls hwRequestPermission(): the code up to the await, and
\* past it when the awaited value is not a pending promise.
RequestPermissionCall(c) ==
  /\ reqs[c].pc = "idle"
  /\ InOrder(c)
  /\ reqs' = [reqs EXCEPT ![c] =
       IF getterFault = "in"
         THEN [@ EXCEPT !.pc = "done", !.undecided = (permission = "default"), !.out = Throw]
       ELSE IF RequestUnsupported
         THEN [@ EXCEPT !.pc = "done", !.undecided = (permission = "default"),
                        !.out = Return(Str("unsupported"))]
       ELSE IF reqStyle = "throws"
         \* the platform call throws synchronously: the catch block runs
         THEN [@ EXCEPT !.pc = "done", !.undecided = (permission = "default"),
                        !.prompt = "failed", !.out = RequestCatch(c)]
       ELSE IF reqStyle = "callback"
         \* the platform call opens the prompt and returns undefined:
         \* await undefined continues at once and r is undefined
         THEN [@ EXCEPT !.pc = "done", !.undecided = (permission = "default"),
                        !.prompt = "open", !.out = RequestReturn(c, Undefined)]
       ELSE [@ EXCEPT !.pc = "awaiting", !.undecided = (permission = "default"), !.prompt = "open"]]
  /\ UNCHANGED <<platform, permission, displayed, last>>

\* The platform settles the prompt of invocation c: the user answers when the
\* permission is still "default", otherwise the platform answers with the
\* permission as it stands. A promise-style request is fulfilled with the
\* answer and the awaiting function returns it: the continuation of the await
\* is a microtask, which runs before any other task, so settling and
\* continuation are one step.
PromptResolve(c, answer) ==
  /\ reqs[c].prompt = "open"
  /\ answer \in (IF permission = "default" THEN Permissions ELSE {permission})
  /\ permission' = answer
  /\ reqs' = [reqs EXCEPT ![c] =
       IF @.pc = "awaiting"
         THEN [@ EXCEPT !.pc = "done", !.prompt = "resolved",
                        !.out = RequestReturn(c, Str(answer))]
         ELSE [@ EXCEPT !.prompt = "resolved"]]
  /\ UNCHANGED <<platform, displayed, last>>

\* The promise of invocation c is rejected: the catch block runs (in the
\* microtask that follows the rejection).
PromptReject(c) ==
  /\ reqs[c].prompt = "open"
  /\ reqs[c].pc = "awaiting"
  /\ reqs' = [reqs EXCEPT ![c] =
       [@ EXCEPT !.pc = "done", !.prompt = "failed", !.out = RequestCatch(c)]]
  /\ UNCHANGED <<platform, permission, displayed, last>>

\* The user changes the permission in the browser's site settings.
SettingsChange(p) ==
  /\ hasNotification
  /\ p # permission
  /\ permission' = p
  /\ UNCHANGED <<platform, displayed, last, reqs>>

\* The user clicks notification i: its click handler, if attached, runs.
Click(i, focusAccess) ==
  /\ displayed[i].onclick
  /\ last' = [op |-> "onclick", title |-> Undefined, body |-> Undefined,
              win |-> focusAccess, perm |-> "n/a", out |-> ClickHandler(focusAccess)]
  /\ UNCHANGED <<platform, permission, displayed, reqs>>

Next ==
  \/ PermissionStatusCall
  \/ \E title \in TitleArgs, body \in BodyArgs : NotifyCall(title, body)
  \/ \E topAccess \in TopAccesses : IsInIframeCall(topAccess)
  \/ \E c \in Reqs : RequestPermissionCall(c)
  \/ \E c \in Reqs, answer \in Permissions : PromptResolve(c, answer)
  \/ \E c \in Reqs : PromptReject(c)
  \/ \E p \in Permissions : SettingsChange(p)
  \/ \E i \in 1..Len(displayed), focusAccess \in FocusAccesses : Click(i, focusAccess)

Spec == Init /\ [][Next]_vars

SpecFault == InitFault /\ [][Next]_vars

\* ----------------------------------------------------------------- claims

PermissionStates == {Str("granted"), Str("denied"), Str("default"), Str("unsupported")}
NotificationResults == {Str("shown"), Str("blocked"), Str("unsupported")}

\* A step in which a call of notify is observed.
IsNotifyStep == last'.op = "notify" /\ <<last, displayed>>' # <<last, displayed>>

\* The step appends exactly one notification, which carries title t, body b
\* and the tag "health-whisperer".
DisplaysOne(t, b) ==
  /\ Len(displayed') = Len(displayed) + 1
  /\ SubSeq(displayed', 1, Len(displayed)) = displayed
  /\ displayed'[Len(displayed')].title = t
  /\ displayed'[Len(displayed')].body = b
  /\ displayed'[Len(displayed')].tag = Str("health-whisperer")

NonEmptyArgs == ~Falsy(last'.title) /\ ~Falsy(last'.body)

\* C1 as stated: every notify(T, B) with non-empty T and B, called while the
\* capability is present and the permission is "granted", constructs exactly
\* one notification with title T, body B and tag "health-whisperer" and
\* returns "shown".
C1_Original ==
  [][(IsNotifyStep /\ hasNotification /\ permission = "granted" /\ NonEmptyArgs)
       => /\ DisplaysOne(last'.title, last'.body)
          /\ last'.out = Return(Str("shown"))]_vars

\* C1 amended: the same, provided the notification constructor does not
\* throw; when it throws, the call returns "blocked" and constructs nothing.
C1_Amended ==
  [][(IsNotifyStep /\ hasNotification /\ permission = "granted" /\ NonEmptyArgs)
       => IF ctorMode = "ctorThrows"
            THEN displayed' = displayed /\ last'.out = Return(Str("blocked"))
            ELSE /\ DisplaysOne(last'.title, last'.body)
                 /\ last'.out = Return(Str("shown"))]_vars

C1_Witness ==
  /\ last.op = "notify" /\ last.title = Str("T") /\ last.body = Str("B")
  /\ last.perm = "granted" /\ last.out = Return(Str("shown"))
  /\ Len(displayed) = 1
  /\ displayed[1].title = Str("T") /\ displayed[1].body = Str("B")

\* C2: with the capability present and the permission "denied" or "default",
\* notify returns "blocked" whatever its arguments and constructs nothing; and
\* every notification ever constructed was constructed by a call that read
\* the permission "granted".
C2_BlockedUnlessGranted ==
  /\ [][(IsNotifyStep /\ hasNotification /\ permission \in {"denied", "default"})
          => displayed' = displayed /\ last'.out = Return(Str("blocked"))]_vars
  /\ [](\A i \in 1..Len(displayed) : displayed[i].perm = "granted")

C2_Witness ==
  /\ hasNotification /\ last.op = "notify" /\ last.perm = "default"
  /\ last.title = Str("T") /\ last.out = Return(Str("blocked"))
  /\ Len(displayed) = 1

\* C3: without the capability, permissionStatus and notify return
\* "unsupported", nothing is ever constructed, and requestPermission resolves
\* to "unsupported" without the platform's permission request being invoked.
C3_Unsupported ==
  ~hasNotification =>
    /\ last.op \in {"permissionStatus", "notify"} => last.out = Return(Str("unsupported"))
    /\ displayed = <<>>
    /\ \A c \in Reqs : reqs[c].pc # "idle" =>
         /\ reqs[c].pc = "done"
         /\ reqs[c].prompt = "none"
         /\ reqs[c].out = Return(Str("unsupported"))

C3_Witness ==
  ~hasNotification /\ last.op = "notify" /\ reqs[1].pc = "done"

NotifyBoundaries ==
  (last.op = "notify" /\ hasNotification /\ getterFault = "none"
     /\ last.perm = "granted")
    => /\ ctorMode = "ctorThrows" => last.out = Return(Str("blocked"))
       /\ ctorMode = "onclickThrows" => last.out = Return(Str("shown"))

UnguardedReadThrows ==
  getterFault = "in" \/ (hasNotification /\ getterFault = "permission")

C6_IsInIframe ==
  last.op = "isInIframe" =>
    /\ last.win \in {"other", "throws"} => last.out = Return(Bool(TRUE))
    /\ last.win = "self" => last.out = Return(Bool(FALSE))
    /\ last.out = Return(Bool(FALSE)) => last.win = "self"

C6_Witness ==
  last.op = "isInIframe" /\ last.win = "throws" /\ last.out = Return(Bool(TRUE))

\* The title and body the claim expects for given arguments.
IsNonEmptyString(v) == v # Undefined /\ v # Str("")
ExpectedTitle(title) == IF IsNonEmptyString(title) THEN title ELSE Str("Health Whisperer")
ExpectedBody(body) == IF IsNonEmptyString(body) THEN body ELSE Str("")

\* C7: the notification a notify call constructs has the given title when it
\* is a non-empty string and "Health Whisperer" when it is missing or empty,
\* and the given body when non-empty and "" otherwise.
C7_Defaults ==
  [][Len(displayed') > Len(displayed)
       => /\ last'.op = "notify"
          /\ displayed'[Len(displayed')].title = ExpectedTitle(last'.title)
          /\ displayed'[Len(displayed')].body = ExpectedBody(last'.body)]_vars

\* notify() with no arguments displayed "Health Whisperer" with an empty body.
C7_Witness ==
  /\ last.op = "notify" /\ last.title = Undefined /\ last.body = Undefined
  /\ last.out = Return(Str("shown"))
  /\ Len(displayed) = 1
  /\ displayed[1].title = Str("Health Whisperer") /\ displayed[1].body = Str("")

\* C8 as stated: with the capability present, an invocation whose prompt is
\* open is still pending; it completes in the step that settles its prompt,
\* and when the prompt resolves the value returned is the value it resolved
\* with.
C8_Ordering ==
  /\ [](\A c \in Reqs : reqs[c].prompt = "open" => reqs[c].pc = "awaiting")
  /\ [][\A c \in Reqs :
          (reqs[c].prompt = "open" /\ reqs'[c].prompt = "resolved")
            => /\ reqs[c].pc = "awaiting" /\ reqs'[c].pc = "done"
               /\ reqs'[c].out = Return(Str(permission'))]_vars

\* The frame conditions C9 states: a synchronous call changes neither the
\* permission nor the invocations of requestPermission, permissionStatus and
\* isInIframe construct nothing, and constructing never changes the permission.
SyncFrame ==
  /\ last' # last =>
       /\ permission' = permission /\ reqs' = reqs
       /\ last'.op \in {"permissionStatus", "isInIframe"} => displayed' = displayed
  /\ displayed' # displayed => permission' = permission

\* Two consecutive synchronous calls of the same operation with the same
\* arguments, meeting the same permission and the same window.top, end alike.
SyncIdempotent ==
  (/\ last'.op = last.op /\ last'.title = last.title /\ last'.body = last.body
   /\ last'.win = last.win /\ last'.perm = last.perm)
    => last'.out = last.out

\* Two completed invocations of requestPermission that both started under
\* the permission "default" returned the same value.
RequestIdempotent ==
  \A c, d \in Reqs :
    (reqs[c].pc = "done" /\ reqs[d].pc = "done" /\ reqs[c].undecided /\ reqs[d].undecided)
      => reqs[c].out = reqs[d].out

C10_ResultTypes ==
  /\ last.op = "permissionStatus" => last.out.ret \in PermissionStates
  /\ \A c \in Reqs : reqs[c].pc = "done" =>
       ~reqs[c].out.raised /\ reqs[c].out.ret \in PermissionStates
  /\ last.op = "notify" =>
       /\ last.out.ret \in NotificationResults
       /\ last.out = Return(Str("shown")) <=>
            (hasNotification /\ last.perm = "granted" /\ ctorMode # "ctorThrows")

====
